---- MODULE Spec2Model ----
EXTENDS Integers, Sequences, FiniteSets, TLC

(***************************************************************************)
(* Media composition pipeline of automate-yt: script timing, caption       *)
(* track, per-segment assets, render, thumbnail ladder, and the driver in  *)
(* main.ts that sequences them.                                            *)
(***************************************************************************)

\* Largest number of space-separated tokens of the selected topic's query.
MaxQueryWords == 2

QueryWords == 1..MaxQueryWords

(***************************************************************************)
(* ScriptGenerator (src/unnamed/part_001)                                  *)
(***************************************************************************)

\* Tokens that text.split(' ') yields for each template besides the topic.
HookWords == <<4, 10, 8, 7, 8>>
HookChoices == 1..Len(HookWords)

ContextWords == 41

\* <<fixed tokens, occurrences of the topic>> of the explanation paragraphs.
ExplanationWords == << <<19, 1>>, <<24, 0>>, <<21, 0>>, <<20, 1>> >>

SummaryWords == 29

CtaWords == <<27, 31, 30>>
CtaChoices == 1..Len(CtaWords)

\* calculateSegmentDuration rounding down
calculateSegmentDurationFloor(wordCount) == (2 * wordCount) \div 5

\* Math.ceil(wordCount / 2.5)
calculateSegmentDuration(wordCount) == (2 * wordCount + 4) \div 5

\* PushSegment with the clock advanced by the word count instead of the duration
PushSegmentAdvanceByWords(st, type, text, words) ==
  LET d == calculateSegmentDuration(words) IN
  [segments |-> Append(st.segments,
                       [type |-> type, startTime |-> st.currentTime,
                        endTime |-> st.currentTime + d, duration |-> d,
                        text |-> text, words |-> words]),
   currentTime |-> st.currentTime + words]

\* segments.push({...}); currentTime += duration
PushSegment(st, type, text, words) ==
  LET d == calculateSegmentDuration(words) IN
  [segments |-> Append(st.segments,
                       [type |-> type, startTime |-> st.currentTime,
                        endTime |-> st.currentTime + d, duration |-> d,
                        text |-> text, words |-> words]),
   currentTime |-> st.currentTime + d]

RECURSIVE PushExplanations(_, _, _)
\* for (const [index, paragraph] of explanation.entries()) { push }
PushExplanations(st, q, index) ==
  IF index > Len(ExplanationWords) THEN st
  ELSE PushExplanations(
         PushSegment(st, "explanation", <<"explanation", index>>,
                     ExplanationWords[index][1] + ExplanationWords[index][2] * q),
         q, index + 1)

RECURSIVE SumWords(_)
SumWords(segs) == IF segs = <<>> THEN 0 ELSE Head(segs).words + SumWords(Tail(segs))

\* generateScript for a query of q tokens, hook template h, cta template c
generateScript(q, h, c) ==
  LET s0 == [segments |-> <<>>, currentTime |-> 0]
      s1 == PushSegment(s0, "hook", <<"hook", h>>, HookWords[h] + q)
      s2 == PushSegment(s1, "context", <<"context", 1>>, ContextWords + q)
      s3 == PushExplanations(s2, q, 1)
      s4 == PushSegment(s3, "summary", <<"summary", 1>>, SummaryWords + q)
      s5 == PushSegment(s4, "cta", <<"cta", c>>, CtaWords[c])
  IN [segments |-> s5.segments,
      totalWords |-> SumWords(s5.segments),
      estimatedDuration |-> s5.currentTime]

NoScript == [segments |-> <<>>, totalWords |-> 0, estimatedDuration |-> 0]

(***************************************************************************)
(* VideoGenerator.formatTime / generateCaptions                            *)
(***************************************************************************)

DigitChar == <<"0", "1", "2", "3", "4", "5", "6", "7", "8", "9">>

RECURSIVE Digits(_)
\* Number.prototype.toString() of a non-negative integer, one character each
Digits(n) == IF n < 10 THEN <<DigitChar[n + 1]>>
             ELSE Digits(n \div 10) \o <<DigitChar[(n % 10) + 1]>>

RECURSIVE padStart(_, _)
\* String.prototype.padStart(width, '0')
padStart(str, width) == IF Len(str) >= width THEN str ELSE padStart(<<"0">> \o str, width)

\* formatTime with the minutes taken of the whole time, hours included
formatTimeTotalMinutes(seconds) ==
  LET hours == seconds \div 3600
      minutes == seconds \div 60
      secs == seconds % 60
      ms == 0
  IN padStart(Digits(hours), 2) \o <<":">> \o padStart(Digits(minutes), 2) \o <<":">>
     \o padStart(Digits(secs), 2) \o <<",">> \o padStart(Digits(ms), 3)

\* formatTime(seconds) for whole seconds: HH:MM:SS,mmm
formatTime(seconds) ==
  LET hours == seconds \div 3600
      minutes == (seconds % 3600) \div 60
      secs == seconds % 60
      ms == 0
  IN padStart(Digits(hours), 2) \o <<":">> \o padStart(Digits(minutes), 2) \o <<":">>
     \o padStart(Digits(secs), 2) \o <<",">> \o padStart(Digits(ms), 3)

RECURSIVE BuildCuesEndFromDuration(_, _)
\* BuildCues with each cue's end taken from segment.duration
BuildCuesEndFromDuration(segs, captionIndex) ==
  IF segs = <<>> THEN <<>>
  ELSE << [index |-> captionIndex,
           start |-> formatTime(Head(segs).startTime),
           end |-> formatTime(Head(segs).duration),
           text |-> Head(segs).text] >>
       \o BuildCuesEndFromDuration(Tail(segs), captionIndex + 1)

RECURSIVE BuildCues(_, _)
\* the loop of generateCaptions: one numbered block per segment
BuildCues(segs, captionIndex) ==
  IF segs = <<>> THEN <<>>
  ELSE << [index |-> captionIndex,
           start |-> formatTime(Head(segs).startTime),
           end |-> formatTime(Head(segs).endTime),
           text |-> Head(segs).text] >>
       \o BuildCues(Tail(segs), captionIndex + 1)

captionsContent(s) == BuildCues(s.segments, 1)

(***************************************************************************)
(* State of one process started through main()                             *)
(***************************************************************************)

VARIABLES
  pc,               \* position of the run inside executePipeline and its callees
  topicWords,       \* tokens of selectedTopic.query (0: no topic selected yet)
  script,           \* the GeneratedScript of the run
  assets,           \* prepareAssets' list: the segment index of each asset path
  voiceFile,        \* <id>_voice.mp3
  captionsFile,     \* <id>_captions.srt: whether it was written, and its cues
  videoFile,        \* <id>_video.mp4
  frameFile,        \* frame_<now>.jpg
  thumbnailFile,    \* <id>_thumbnail.png
  inflight,         \* external-tool child processes started and not yet settled
  timeout,          \* the timeout option (ms) of the invocation in flight, 0: none
  segPrimary,       \* createSegmentImage: how the convert call of the current segment settled
  segFallbacks,     \* createSegmentImage: fallback invocations made for the current segment
  zeroByteImage,    \* some path in `assets` names a zero-byte image
  musicFound,       \* renderWithFFmpeg: fs.access(musicPath) resolved
  narration,        \* seconds of audio the render read from the voiceover (0: no render output)
  videoDuration,    \* seconds of the rendered output (0: none)
  attempts,         \* thumbnail strategies in the order they were invoked in this call
  now,              \* Date.now() of the host, shared by every run
  pathsWritten,     \* per concurrent run, the paths it has written
  renderCalls,      \* invocations of the final render command
  renderOutcome,    \* how the last render invocation settled ("none": not yet)
  convertSucceeded, \* some convert invocation settled without an error
  ffmpegFailed,     \* some ffmpeg invocation rejected
  tried,            \* thumbnail strategies invoked in this call
  failedSteps,      \* steps of generateThumbnail that threw in this call
  gvStatus, gvError,   \* generateVideo: idle / running / returned / raised, its error
  gtStatus, gtError,   \* generateThumbnail: the same
  result, pipelineError,  \* how executePipeline settled, and the error it rejected with
  timeSeconds,      \* formatTime: its argument
  timeText,         \* formatTime: the text it returned (<<>>: not called yet)
  retry,            \* retryWithBackoff: the state of one call
  process,          \* the node process: running / exit0 / exit1 / crashed
  timer,            \* the analytics setTimeout: none / pending / fired
  analyticsPc,      \* collectAnalytics: idle, or the await it has reached, or done
  db,               \* the Database of YouTubeAutomationPipeline
  queries,          \* the queries issued so far, each with the state of its Database
  remoteVideo       \* videos.insert succeeded: the video exists on the channel

fileVars == <<voiceFile, captionsFile, videoFile, frameFile, thumbnailFile>>
histVars == <<renderCalls, musicFound, renderOutcome, narration, videoDuration,
              convertSucceeded, ffmpegFailed, tried, attempts, failedSteps>>
toolVars == <<inflight, timeout>>
segVars == <<segPrimary, segFallbacks, zeroByteImage>>
pathVars == <<now, pathsWritten>>
libVars == <<timeSeconds, timeText, retry>>
procVars == <<process, timer, analyticsPc, db, queries, remoteVideo>>
gvVars == <<gvStatus, gvError>>
gtVars == <<gtStatus, gtError>>
runVars == <<result, pipelineError>>
vars == <<pc, topicWords, script, assets, fileVars, toolVars, histVars,
          segVars, pathVars, gvVars, gtVars, runVars, libVars, procVars>>

\* What a child process can do: exit 0 leaving output, exit 0 leaving a
\* zero-byte output, or exit non-zero (execAsync rejects).
ToolOutcomes == {"ok", "empty", "fail"}

NoError == "none"

\* execAsync called without a timeout option
NoTimeout == 0

\* { timeout: 300000 }
RenderTimeoutMs == 300000

\* `-loop 1 -t 2`: seconds each image is held
SlotSeconds == 2

\* Concurrent runs of the pipeline on one host
NumRuns == 2
Runs == 1..NumRuns

NoCaptions == [written |-> FALSE, cues |-> <<>>]

\* What a promise can reject with: an Error (instanceof Error) or any other
\* value; id tells the values apart.  `let lastError: unknown = null`
NoRejection == [isError |-> FALSE, id |-> 0]

\* No call of retryWithBackoff
NoRetry ==
  [maxRetries |-> 0, baseDelay |-> 0, attempt |-> 0, status |-> "idle", outcomes |-> <<>>,
   waits |-> <<>>, value |-> 0, lastError |-> NoRejection, raised |-> NoRejection]

\* Database: `private db: sqlite3.Database | null = null; private isConnected
\* = false`.  handle: this.db is not null; initialised: the tables and the
\* default weights exist; connect: how the last connect() call stands
FreshDatabase ==
  [handle |-> FALSE, isConnected |-> FALSE, initialised |-> FALSE, connect |-> "none"]

\* The Database after `await this.db.connect()` resolved
ConnectedDatabase ==
  [handle |-> TRUE, isConnected |-> TRUE, initialised |-> TRUE, connect |-> "resolved"]

\* formatTime and retryWithBackoff are not being called
LibIdle ==
  /\ timeSeconds = 0
  /\ timeText = <<>>
  /\ retry = NoRetry

\* The process runs, its pipeline holds `database`, nothing is scheduled
ProcessStarted(database) ==
  /\ process = "running"
  /\ timer = "none"
  /\ analyticsPc = "idle"
  /\ db = database
  /\ queries = {}
  /\ remoteVideo = FALSE

Init ==
  /\ pc = "fetchTrends"
  /\ topicWords = 0
  /\ script = NoScript
  /\ assets = <<>>
  /\ voiceFile = "none"
  /\ captionsFile = NoCaptions
  /\ videoFile = "none"
  /\ frameFile = "none"
  /\ thumbnailFile = "none"
  /\ inflight = 0
  /\ timeout = NoTimeout
  /\ segPrimary = "none"
  /\ segFallbacks = 0
  /\ zeroByteImage = FALSE
  /\ renderCalls = 0
  /\ musicFound = FALSE
  /\ renderOutcome = "none"
  /\ narration = 0
  /\ videoDuration = 0
  /\ convertSucceeded = FALSE
  /\ ffmpegFailed = FALSE
  /\ tried = {}
  /\ attempts = <<>>
  /\ failedSteps = {}
  /\ now = 0
  /\ pathsWritten = [r \in Runs |-> {}]
  /\ gvStatus = "idle"
  /\ gvError = NoError
  /\ gtStatus = "idle"
  /\ gtError = NoError
  /\ result = "running"
  /\ pipelineError = NoError
  /\ LibIdle
  /\ ProcessStarted(ConnectedDatabase)

\* execAsync(command, { timeout: ms }): the child process is started ...
InvokeWithTimeout(ms) == inflight' = inflight + 1 /\ timeout' = ms
\* execAsync(command): ... with no bound on its running time
Invoke == InvokeWithTimeout(NoTimeout)
\* ... and the awaited promise settles
Settle == inflight' = inflight - 1 /\ timeout' = NoTimeout

\* executePipeline: catch (error) { logger.error(...); throw error; }
PipelineCatch(error) == error

\* A callee of executePipeline rejected with error e
PipelineFails(e) ==
  /\ result' = "error"
  /\ pipelineError' = PipelineCatch(e)
  /\ pc' = "failed"

(***************************************************************************)
(* main.ts steps 1-4: trends, topic, script, voiceover                     *)
(***************************************************************************)

\* steps 1 and 2: fetchTrends, scoreTopics, selectedTopic = scoredTopics[0]
SelectTopic(outcome, q) ==
  /\ pc = "fetchTrends"
  /\ CASE outcome = "noTrends" ->
            /\ result' = "noTrends" /\ pc' = "returned" /\ UNCHANGED topicWords
       [] outcome = "noTopic" ->
            /\ result' = "noTopic" /\ pc' = "returned" /\ UNCHANGED topicWords
       [] OTHER ->
            /\ topicWords' = q /\ pc' = "generateScript" /\ UNCHANGED result
  /\ UNCHANGED <<script, assets, segVars, pathVars, libVars, procVars,
                 fileVars, toolVars, histVars, gvVars, gtVars,
                 pipelineError>>

\* step 3
GenerateScript(h, c) ==
  /\ pc = "generateScript"
  /\ script' = generateScript(topicWords, h, c)
  /\ pc' = "generateVoice"
  /\ UNCHANGED <<topicWords, pathVars, libVars, procVars,
                 assets, segVars, fileVars, toolVars, histVars, gvVars,
                 gtVars, runVars>>

\* generateWithFFmpegTTS: say / espeak / powershell is started
VoiceTTSStart ==
  /\ pc = "generateVoice"
  /\ Invoke
  /\ pc' = "ttsWait"
  /\ UNCHANGED <<topicWords, pathVars, libVars, procVars,
                 script, assets, segVars, fileVars, histVars, gvVars,
                 gtVars, runVars>>

\* The speech engine settles.  On darwin it wrote outputPath itself and
\* generateVoice verifies it; elsewhere ffmpeg converts its wav next.
VoiceTTSEnd(o, platform) ==
  /\ pc = "ttsWait"
  /\ Settle
  /\ IF o = "fail" THEN pc' = "voiceFallback" /\ UNCHANGED voiceFile
     ELSE IF platform = "darwin"
          THEN /\ voiceFile' = o
               /\ pc' = IF o = "ok" THEN "generateVideo" ELSE "voiceFallback"
          ELSE pc' = "voiceConvert" /\ UNCHANGED voiceFile
  /\ UNCHANGED <<topicWords, pathVars, libVars, procVars,
                 script, assets, segVars, captionsFile, videoFile,
                 frameFile, thumbnailFile, histVars, gvVars, gtVars, runVars>>

\* ffmpeg -i <wav> -codec:a libmp3lame ... <outputPath>
VoiceConvertStart ==
  /\ pc = "voiceConvert"
  /\ Invoke
  /\ pc' = "voiceConvertWait"
  /\ UNCHANGED <<topicWords, pathVars, libVars, procVars,
                 script, assets, segVars, fileVars, histVars, gvVars,
                 gtVars, runVars>>

VoiceConvertEnd(o) ==
  /\ pc = "voiceConvertWait"
  /\ Settle
  /\ ffmpegFailed' = (ffmpegFailed \/ o = "fail")
  /\ voiceFile' = IF o = "fail" THEN voiceFile ELSE o
  /\ pc' = IF o = "ok" THEN "generateVideo" ELSE "voiceFallback"
  /\ UNCHANGED <<topicWords, pathVars, libVars, procVars,
                 script, assets, segVars, captionsFile, videoFile,
                 frameFile, thumbnailFile, renderCalls, musicFound, renderOutcome, narration,
                 videoDuration, convertSucceeded, tried, attempts,
                 failedSteps, gvVars, gtVars, runVars>>

\* catch: createFallbackAudio(script.estimatedDuration, outputPath)
VoiceFallbackStart ==
  /\ pc = "voiceFallback"
  /\ Invoke
  /\ pc' = "voiceFallbackWait"
  /\ UNCHANGED <<topicWords, pathVars, libVars, procVars,
                 script, assets, segVars, fileVars, histVars, gvVars,
                 gtVars, runVars>>

VoiceFallbackEnd(o) ==
  /\ pc = "voiceFallbackWait"
  /\ Settle
  /\ ffmpegFailed' = (ffmpegFailed \/ o = "fail")
  /\ IF o = "fail"
     THEN PipelineFails("VoiceFallbackError") /\ UNCHANGED voiceFile
     ELSE voiceFile' = o /\ pc' = "generateVideo" /\ UNCHANGED runVars
  /\ UNCHANGED <<topicWords, pathVars, libVars, procVars,
                 script, assets, segVars, captionsFile, videoFile,
                 frameFile, thumbnailFile, renderCalls, musicFound, renderOutcome, narration,
                 videoDuration, convertSucceeded, tried, attempts,
                 failedSteps, gvVars, gtVars>>

(***************************************************************************)
(* VideoGenerator.generateVideo                                            *)
(***************************************************************************)

\* GvCatch throwing a new error in place of the caught one
GvCatchWrap(error) == "VideoGenerationError"

\* generateVideo: catch (error) { logger.error(...); throw error; }
GvCatch(error) == error

\* An awaited step of generateVideo rejected with e: generateVideo rejects and
\* so does executePipeline, which awaits it.
GvRaise(e) ==
  /\ gvStatus' = "raised"
  /\ gvError' = GvCatch(e)
  /\ PipelineFails(GvCatch(e))

\* Where prepareAssets continues once `done` assets are in the list
AfterAsset(done) ==
  IF done < Len(script.segments) THEN "createSegmentImage" ELSE "generateCaptions"

\* main.ts step 5: generateVideo is entered, prepareAssets starts with assets = []
GenerateVideoStart ==
  /\ pc = "generateVideo"
  /\ gvStatus' = "running"
  /\ assets' = <<>>
  /\ zeroByteImage' = FALSE
  /\ pc' = AfterAsset(0)
  /\ UNCHANGED <<segPrimary, segFallbacks>>
  /\ UNCHANGED <<topicWords, pathVars, libVars, procVars,
                 script, fileVars, toolVars, histVars, gvError, gtVars,
                 runVars>>

\* SegmentConvertStart with the convert call not awaited: the path is pushed
\* and the loop goes on while the child process runs
SegmentConvertStartNoAwait ==
  /\ pc = "createSegmentImage"
  /\ Invoke
  /\ segPrimary' = "pending"
  /\ segFallbacks' = 0
  /\ assets' = Append(assets, Len(assets))
  /\ pc' = AfterAsset(Len(assets) + 1)
  /\ UNCHANGED zeroByteImage
  /\ UNCHANGED <<topicWords, pathVars, libVars, procVars,
                 script, fileVars, histVars, gvVars, gtVars, runVars>>

\* createSegmentImage: await execAsync(convert ...) for segment i = Len(assets)
SegmentConvertStart ==
  /\ pc = "createSegmentImage"
  /\ Invoke
  /\ segPrimary' = "pending"
  /\ segFallbacks' = 0
  /\ pc' = "segmentConvertWait"
  /\ UNCHANGED <<topicWords, pathVars, libVars, procVars,
                 script, assets, zeroByteImage, fileVars, histVars,
                 gvVars, gtVars, runVars>>

\* SegmentConvertEnd without the try/catch around the convert call
SegmentConvertEndNoCatch(o) ==
  /\ pc = "segmentConvertWait"
  /\ Settle
  /\ convertSucceeded' = (convertSucceeded \/ o # "fail")
  /\ segPrimary' = o
  /\ IF o = "fail"
     THEN /\ GvRaise("ConvertError")
          /\ UNCHANGED <<assets, zeroByteImage>>
     ELSE /\ assets' = Append(assets, Len(assets))
          /\ zeroByteImage' = (zeroByteImage \/ o = "empty")
          /\ pc' = AfterAsset(Len(assets) + 1)
          /\ UNCHANGED <<gvVars, runVars>>
  /\ UNCHANGED segFallbacks
  /\ UNCHANGED <<topicWords, pathVars, libVars, procVars,
                 script, voiceFile, captionsFile, videoFile, frameFile,
                 thumbnailFile, renderCalls, musicFound, renderOutcome, narration, videoDuration,
                 ffmpegFailed, tried, attempts,
                 failedSteps, gtVars>>

\* convert settled: on success createSegmentImage returns and the path is pushed
SegmentConvertEnd(o) ==
  /\ pc = "segmentConvertWait"
  /\ Settle
  /\ convertSucceeded' = (convertSucceeded \/ o # "fail")
  /\ segPrimary' = o
  /\ IF o = "fail"
     THEN /\ pc' = "segmentFallback"
          /\ UNCHANGED <<assets, zeroByteImage>>
     ELSE /\ assets' = Append(assets, Len(assets))
          /\ zeroByteImage' = (zeroByteImage \/ o = "empty")
          /\ pc' = AfterAsset(Len(assets) + 1)
  /\ UNCHANGED segFallbacks
  /\ UNCHANGED <<topicWords, pathVars, libVars, procVars,
                 script, voiceFile, captionsFile, videoFile, frameFile,
                 thumbnailFile, renderCalls, musicFound, renderOutcome, narration, videoDuration,
                 ffmpegFailed, tried, attempts, failedSteps,
                 gvVars, gtVars, runVars>>

\* catch: await execAsync(ffmpeg -f lavfi -i color=... -frames:v 1 <outputPath>)
SegmentFallbackStart ==
  /\ pc = "segmentFallback"
  /\ Invoke
  /\ segFallbacks' = segFallbacks + 1
  /\ pc' = "segmentFallbackWait"
  /\ UNCHANGED <<topicWords, pathVars, libVars, procVars,
                 script, assets, segPrimary, zeroByteImage, fileVars,
                 histVars, gvVars, gtVars, runVars>>

\* SegmentFallbackEnd with a failed fallback invoked again
SegmentFallbackEndRetry(o) ==
  /\ pc = "segmentFallbackWait"
  /\ Settle
  /\ ffmpegFailed' = (ffmpegFailed \/ o = "fail")
  /\ IF o = "fail"
     THEN /\ pc' = "segmentFallback"
          /\ UNCHANGED <<assets, zeroByteImage>>
     ELSE /\ assets' = Append(assets, Len(assets))
          /\ zeroByteImage' = (zeroByteImage \/ o = "empty")
          /\ pc' = AfterAsset(Len(assets) + 1)
  /\ UNCHANGED <<segPrimary, segFallbacks, gvVars, runVars>>
  /\ UNCHANGED <<topicWords, pathVars, libVars, procVars,
                 script, voiceFile, captionsFile, videoFile, frameFile,
                 thumbnailFile, renderCalls, musicFound, renderOutcome, narration, videoDuration,
                 convertSucceeded, tried, attempts, failedSteps, gtVars>>

SegmentFallbackEnd(o) ==
  /\ pc = "segmentFallbackWait"
  /\ Settle
  /\ ffmpegFailed' = (ffmpegFailed \/ o = "fail")
  /\ IF o = "fail"
     THEN /\ GvRaise("AssetFallbackError")
          /\ UNCHANGED <<assets, zeroByteImage>>
     ELSE /\ assets' = Append(assets, Len(assets))
          /\ zeroByteImage' = (zeroByteImage \/ o = "empty")
          /\ pc' = AfterAsset(Len(assets) + 1)
          /\ UNCHANGED <<gvVars, runVars>>
  /\ UNCHANGED <<segPrimary, segFallbacks>>
  /\ UNCHANGED <<topicWords, pathVars, libVars, procVars,
                 script, voiceFile, captionsFile, videoFile, frameFile,
                 thumbnailFile, renderCalls, musicFound, renderOutcome, narration, videoDuration,
                 convertSucceeded, tried, attempts, failedSteps, gtVars>>

\* generateCaptions: build the cues, await fs.writeFile(captionsPath, content)
GenerateCaptions(written) ==
  /\ pc = "generateCaptions"
  /\ IF written
     THEN /\ captionsFile' = [written |-> TRUE, cues |-> captionsContent(script)]
          /\ pc' = "renderWithFFmpeg"
          /\ UNCHANGED <<gvVars, runVars>>
     ELSE /\ GvRaise("CaptionWriteError")
          /\ UNCHANGED captionsFile
  /\ segPrimary' = "none"
  /\ segFallbacks' = 0
  /\ UNCHANGED <<topicWords, pathVars, libVars, procVars,
                 script, assets, zeroByteImage, voiceFile, videoFile,
                 frameFile,
                 thumbnailFile, toolVars, histVars, gtVars>>

Min(a, b) == IF a <= b THEN a ELSE b
Max(a, b) == IF a >= b THEN a ELSE b

\* Seconds of the file the render command writes: the video stream is the
\* concatenation of one `-loop 1 -t 2` input per asset; the audio stream is the
\* voiceover, or with music the amix (duration=longest) of voiceover and
\* music; `-shortest` ends the output with the shorter stream.
OutputDuration(numAssets, voiceSeconds, music, musicSeconds) ==
  LET videoStream == numAssets * SlotSeconds
      audioStream == IF music THEN Max(voiceSeconds, musicSeconds) ELSE voiceSeconds
  IN Min(videoStream, audioStream)

\* Longest audio file considered, in seconds
MaxAudioSeconds == 70

\* Lengths an audio file on disk can have: shorter than one slot, or long
AudioSeconds == {1, MaxAudioSeconds}

(* The render command.  filterComplex is the string the code builds, kept   *)
(* as the sequence of pieces appended to it: filter stages and ';'.         *)

\* [i:v] and [i:a]: a stream of the i-th input
InputPad(i, type) == <<"input", i, type>>
\* [v0], [v1], ...: a named link label
LinkLabel(name, i) == <<name, i, "">>

\* `[ins...]filter=args[out]`; volumes are in tenths
Stage(ins, filter, args, out) ==
  [kind |-> "stage", ins |-> ins, filter |-> filter, args |-> args, out |-> <<out>>]
\* ';'
Separator == [kind |-> "sep", ins |-> <<>>, filter |-> ";", args |-> <<>>, out |-> <<>>]

RECURSIVE ImageInputs(_, _)
\* inputs += `-loop 1 -t ${segmentDurations[i]} -i "${assets[i]}" ` for i >= from
ImageInputs(assetList, from) ==
  IF from >= Len(assetList) THEN <<>>
  ELSE << [loop |-> TRUE, t |-> SlotSeconds, path |-> <<"segment", assetList[from + 1]>>] >>
       \o ImageInputs(assetList, from + 1)

\* inputs += `-i "${path}" `
AudioInput(name) == [loop |-> FALSE, t |-> 0, path |-> <<name, 0>>]

RECURSIVE ImageStages(_, _)
\* filterComplex += `[${i}:v]setpts=PTS-STARTPTS[v${i}];` for i >= from
ImageStages(n, from) ==
  IF from >= n THEN <<>>
  ELSE << Stage(<<InputPad(from, "v")>>, "setpts", <<>>, LinkLabel("v", from)), Separator >>
       \o ImageStages(n, from + 1)

RECURSIVE ConcatInputsReversed(_, _)
\* ConcatInputs listing the labels from the last image to the first
ConcatInputsReversed(n, from) ==
  IF from >= n THEN <<>>
  ELSE ConcatInputsReversed(n, from + 1) \o <<LinkLabel("v", from)>>

RECURSIVE ConcatInputs(_, _)
\* concatInputs += `[v${i}]` for i >= from
ConcatInputs(n, from) ==
  IF from >= n THEN <<>>
  ELSE <<LinkLabel("v", from)>> \o ConcatInputs(n, from + 1)

\* filterComplex += `${concatInputs}concat=n=${assets.length}:v=1:a=0[outv];`
ConcatStage(n) ==
  << Stage(ConcatInputs(n, 0), "concat", <<n, 1, 0>>, LinkLabel("outv", 0)), Separator >>

\* AudioFilter with the two volumes exchanged
AudioFilterSwappedLevels(n, music) ==
  IF music
  THEN << Separator,
          Stage(<<InputPad(n, "a")>>, "volume", <<1>>, LinkLabel("music", 0)), Separator,
          Stage(<<InputPad(n + 1, "a")>>, "volume", <<3>>, LinkLabel("bg", 0)), Separator,
          Stage(<<LinkLabel("music", 0), LinkLabel("bg", 0)>>, "amix:duration=longest", <<2>>,
                LinkLabel("aout", 0)) >>
  ELSE << Stage(<<InputPad(n, "a")>>, "volume", <<10>>, LinkLabel("aout", 0)) >>

\* With music: `;[n:a]volume=0.3[music];[n+1:a]volume=0.1[bg];[music][bg]amix=
\* inputs=2:duration=longest[aout]`; without: `[n:a]volume=1.0[aout]`
AudioFilter(n, music) ==
  IF music
  THEN << Separator,
          Stage(<<InputPad(n, "a")>>, "volume", <<3>>, LinkLabel("music", 0)), Separator,
          Stage(<<InputPad(n + 1, "a")>>, "volume", <<1>>, LinkLabel("bg", 0)), Separator,
          Stage(<<LinkLabel("music", 0), LinkLabel("bg", 0)>>, "amix:duration=longest", <<2>>,
                LinkLabel("aout", 0)) >>
  ELSE << Stage(<<InputPad(n, "a")>>, "volume", <<10>>, LinkLabel("aout", 0)) >>

\* filterComplex += `;[outv]subtitles='...'[finalv]`
CaptionStage ==
  << Separator, Stage(<<LinkLabel("outv", 0)>>, "subtitles", <<>>, LinkLabel("finalv", 0)) >>

\* The command renderWithFFmpeg builds for these assets, with or without music
renderCommand(assetList, music) ==
  LET n == Len(assetList) IN
  [inputs |-> ImageInputs(assetList, 0) \o <<AudioInput("voiceover")>>
              \o (IF music THEN <<AudioInput("music")>> ELSE <<>>),
   filterComplex |-> ImageStages(n, 0) \o ConcatStage(n) \o AudioFilter(n, music)
                     \o CaptionStage,
   maps |-> <<LinkLabel("finalv", 0), LinkLabel("aout", 0)>>,
   shortest |-> TRUE]

\* renderWithFFmpeg: the command is built (fs.access(musicPath) resolved or
\* rejected) and execAsync(command, { timeout: 300000 }) started
RenderStart(music) ==
  /\ pc = "renderWithFFmpeg"
  /\ InvokeWithTimeout(RenderTimeoutMs)
  /\ musicFound' = music
  /\ renderCalls' = renderCalls + 1
  /\ pc' = "renderWait"
  /\ UNCHANGED <<topicWords, pathVars, libVars, procVars,
                 script, assets, segVars, fileVars, renderOutcome,
                 narration, videoDuration, convertSucceeded, ffmpegFailed,
                 tried, attempts, failedSteps, gvVars, gtVars, runVars>>

\* RenderEnd with a failed render invoked again
RenderEndRetry(o, voiceSeconds, musicSeconds) ==
  /\ pc = "renderWait"
  /\ Settle
  /\ renderOutcome' = o
  /\ ffmpegFailed' = (ffmpegFailed \/ o = "fail")
  /\ IF o = "ok"
     THEN /\ narration' = voiceSeconds
          /\ videoDuration' = OutputDuration(Len(assets), voiceSeconds, musicFound, musicSeconds)
     ELSE UNCHANGED <<narration, videoDuration>>
  /\ IF o = "fail"
     THEN /\ pc' = "renderWithFFmpeg"
          /\ UNCHANGED videoFile
     ELSE /\ videoFile' = o
          /\ pc' = "verifyVideo"
  /\ UNCHANGED <<topicWords, pathVars, libVars, procVars,
                 script, assets, segVars, voiceFile, captionsFile,
                 frameFile, thumbnailFile, renderCalls, musicFound, convertSucceeded, tried,
                 attempts,
                 failedSteps, gvVars, gtVars, runVars>>

\* The render settles; a rejection (non-zero exit, timeout) leaves generateVideo
\* through its catch.  An output with content has the length ffmpeg gave it
\* from the voiceover (voiceSeconds) and the music (musicSeconds) it read.
RenderEnd(o, voiceSeconds, musicSeconds) ==
  /\ pc = "renderWait"
  /\ Settle
  /\ renderOutcome' = o
  /\ ffmpegFailed' = (ffmpegFailed \/ o = "fail")
  /\ IF o = "ok"
     THEN /\ narration' = voiceSeconds
          /\ videoDuration' = OutputDuration(Len(assets), voiceSeconds, musicFound, musicSeconds)
     ELSE UNCHANGED <<narration, videoDuration>>
  /\ IF o = "fail"
     THEN /\ GvRaise("RenderFailure")
          /\ UNCHANGED videoFile
     ELSE /\ videoFile' = o
          /\ pc' = "verifyVideo"
          /\ UNCHANGED <<gvVars, runVars>>
  /\ UNCHANGED <<topicWords, pathVars, libVars, procVars,
                 script, assets, segVars, voiceFile, captionsFile,
                 frameFile, thumbnailFile, renderCalls, musicFound, convertSucceeded, tried,
                 attempts,
                 failedSteps, gtVars>>

\* VerifyVideo checking only that the file exists, not its size
VerifyVideoExistsOnly ==
  /\ pc = "verifyVideo"
  /\ IF videoFile # "none"
     THEN /\ gvStatus' = "returned"
          /\ pc' = "generateThumbnail"
          /\ UNCHANGED <<gvError, runVars>>
     ELSE GvRaise("EmptyVideoError")
  /\ UNCHANGED <<topicWords, pathVars, libVars, procVars,
                 script, assets, segVars, fileVars, toolVars, histVars,
                 gtVars>>

\* Step 4: stats = await fs.stat(outputPath); size 0 throws; else return outputPath
VerifyVideo ==
  /\ pc = "verifyVideo"
  /\ IF videoFile = "ok"
     THEN /\ gvStatus' = "returned"
          /\ pc' = "generateThumbnail"
          /\ UNCHANGED <<gvError, runVars>>
     ELSE GvRaise("EmptyVideoError")
  /\ UNCHANGED <<topicWords, pathVars, libVars, procVars,
                 script, assets, segVars, fileVars, toolVars, histVars,
                 gtVars>>

(***************************************************************************)
(* ThumbnailGenerator.generateThumbnail                                    *)
(***************************************************************************)

\* main.ts step 6: generateThumbnail is entered; extractVideoFrame starts ffmpeg
ExtractFrameStart ==
  /\ pc = "generateThumbnail"
  /\ gtStatus' = "running"
  /\ Invoke
  /\ pc' = "extractWait"
  /\ UNCHANGED <<topicWords, pathVars, libVars, procVars,
                 script, assets, segVars, fileVars, histVars, gvVars,
                 gtError, runVars>>

\* ExtractFrameEnd with extractVideoFrame called outside the try block
ExtractFrameEndNoCatch(o) ==
  /\ pc = "extractWait"
  /\ Settle
  /\ ffmpegFailed' = (ffmpegFailed \/ o = "fail")
  /\ IF o = "fail"
     THEN /\ failedSteps' = failedSteps \cup {"extract"}
          /\ gtStatus' = "raised"
          /\ gtError' = "ExtractFrameError"
          /\ PipelineFails("ExtractFrameError")
          /\ UNCHANGED frameFile
     ELSE /\ frameFile' = o
          /\ pc' = "thumbnailConvert"
          /\ UNCHANGED <<failedSteps, gtVars, runVars>>
  /\ UNCHANGED <<topicWords, pathVars, libVars, procVars,
                 script, assets, segVars, voiceFile, captionsFile,
                 videoFile, thumbnailFile, renderCalls, musicFound, renderOutcome, narration,
                 videoDuration, convertSucceeded, tried, attempts,
                 gvVars>>

\* A rejection is caught by generateThumbnail's catch: the flat-colour fallback
ExtractFrameEnd(o) ==
  /\ pc = "extractWait"
  /\ Settle
  /\ ffmpegFailed' = (ffmpegFailed \/ o = "fail")
  /\ IF o = "fail"
     THEN /\ failedSteps' = failedSteps \cup {"extract"}
          /\ pc' = "thumbnailFallback"
          /\ UNCHANGED frameFile
     ELSE /\ frameFile' = o
          /\ pc' = "thumbnailConvert"
          /\ UNCHANGED failedSteps
  /\ UNCHANGED <<topicWords, pathVars, libVars, procVars,
                 script, assets, segVars, voiceFile, captionsFile,
                 videoFile, thumbnailFile, renderCalls, musicFound, renderOutcome, narration,
                 videoDuration, convertSucceeded, tried, attempts,
                 gvVars, gtVars, runVars>>

\* createThumbnailWithOverlay: await execAsync(convert <frame> ... <thumbnail>)
ThumbnailConvertStart ==
  /\ pc = "thumbnailConvert"
  /\ Invoke
  /\ tried' = tried \cup {"rasterizer"}
  /\ attempts' = Append(attempts, "rasterizer")
  /\ pc' = "thumbnailConvertWait"
  /\ UNCHANGED <<topicWords, pathVars, libVars, procVars,
                 script, assets, segVars, fileVars, renderCalls,
                 musicFound, renderOutcome, narration, videoDuration, convertSucceeded,
                 ffmpegFailed, failedSteps, gvVars, gtVars, runVars>>

\* ThumbnailConvertEnd with the convert call's catch going straight to the
\* flat-colour fallback
ThumbnailConvertEndSkipDrawtext(o) ==
  /\ pc = "thumbnailConvertWait"
  /\ Settle
  /\ convertSucceeded' = (convertSucceeded \/ o # "fail")
  /\ IF o = "fail"
     THEN /\ failedSteps' = failedSteps \cup {"rasterizer"}
          /\ pc' = "thumbnailFallback"
          /\ UNCHANGED thumbnailFile
     ELSE /\ thumbnailFile' = o
          /\ pc' = "unlinkFrame"
          /\ UNCHANGED failedSteps
  /\ UNCHANGED <<topicWords, pathVars, libVars, procVars,
                 script, assets, segVars, voiceFile, captionsFile,
                 videoFile, frameFile, renderCalls, musicFound, renderOutcome, narration,
                 videoDuration, ffmpegFailed, tried, attempts, gvVars, gtVars, runVars>>

ThumbnailConvertEnd(o) ==
  /\ pc = "thumbnailConvertWait"
  /\ Settle
  /\ convertSucceeded' = (convertSucceeded \/ o # "fail")
  /\ IF o = "fail"
     THEN /\ failedSteps' = failedSteps \cup {"rasterizer"}
          /\ pc' = "thumbnailDrawtext"
          /\ UNCHANGED thumbnailFile
     ELSE /\ thumbnailFile' = o
          /\ pc' = "unlinkFrame"
          /\ UNCHANGED failedSteps
  /\ UNCHANGED <<topicWords, pathVars, libVars, procVars,
                 script, assets, segVars, voiceFile, captionsFile,
                 videoFile, frameFile, renderCalls, musicFound, renderOutcome, narration,
                 videoDuration, ffmpegFailed, tried, attempts,
                 gvVars, gtVars, runVars>>

\* catch: createThumbnailWithFFmpeg: await execAsync(ffmpeg -i <frame> -vf drawtext ...)
ThumbnailDrawtextStart ==
  /\ pc = "thumbnailDrawtext"
  /\ Invoke
  /\ tried' = tried \cup {"drawtext"}
  /\ attempts' = Append(attempts, "drawtext")
  /\ pc' = "thumbnailDrawtextWait"
  /\ UNCHANGED <<topicWords, pathVars, libVars, procVars,
                 script, assets, segVars, fileVars, renderCalls,
                 musicFound, renderOutcome, narration, videoDuration, convertSucceeded,
                 ffmpegFailed, failedSteps, gvVars, gtVars, runVars>>

\* A rejection leaves createThumbnailWithOverlay and reaches generateThumbnail's catch
ThumbnailDrawtextEnd(o) ==
  /\ pc = "thumbnailDrawtextWait"
  /\ Settle
  /\ ffmpegFailed' = (ffmpegFailed \/ o = "fail")
  /\ IF o = "fail"
     THEN /\ failedSteps' = failedSteps \cup {"drawtext"}
          /\ pc' = "thumbnailFallback"
          /\ UNCHANGED thumbnailFile
     ELSE /\ thumbnailFile' = o
          /\ pc' = "unlinkFrame"
          /\ UNCHANGED failedSteps
  /\ UNCHANGED <<topicWords, pathVars, libVars, procVars,
                 script, assets, segVars, voiceFile, captionsFile,
                 videoFile, frameFile, renderCalls, musicFound, renderOutcome, narration,
                 videoDuration, convertSucceeded, tried, attempts,
                 gvVars, gtVars, runVars>>

\* UnlinkFrame without the .catch: a failed deletion throws into the catch of
\* generateThumbnail
UnlinkFrameThrows(deleted) ==
  /\ pc = "unlinkFrame"
  /\ frameFile' = IF deleted THEN "none" ELSE frameFile
  /\ pc' = IF deleted THEN "verifyThumbnail" ELSE "thumbnailFallback"
  /\ UNCHANGED <<topicWords, pathVars, libVars, procVars,
                 script, assets, segVars, voiceFile, captionsFile,
                 videoFile, thumbnailFile, toolVars, histVars, gvVars, gtVars, runVars>>

\* await fs.unlink(framePath).catch(() => {})
UnlinkFrame(deleted) ==
  /\ pc = "unlinkFrame"
  /\ frameFile' = IF deleted THEN "none" ELSE frameFile
  /\ pc' = "verifyThumbnail"
  /\ UNCHANGED <<topicWords, pathVars, libVars, procVars,
                 script, assets, segVars, voiceFile, captionsFile,
                 videoFile, thumbnailFile, toolVars, histVars, gvVars, gtVars, runVars>>

\* stats = await fs.stat(thumbnailPath); size 0 throws into the catch
VerifyThumbnail ==
  /\ pc = "verifyThumbnail"
  /\ IF thumbnailFile = "ok"
     THEN /\ gtStatus' = "returned"
          /\ pc' = "generateMetadata"
          /\ UNCHANGED failedSteps
     ELSE /\ failedSteps' = failedSteps \cup {"verify"}
          /\ pc' = "thumbnailFallback"
          /\ UNCHANGED gtStatus
  /\ UNCHANGED <<topicWords, pathVars, libVars, procVars,
                 script, assets, segVars, fileVars, toolVars,
                 renderCalls, musicFound,
                 renderOutcome, narration, videoDuration, convertSucceeded, ffmpegFailed, tried,
                 attempts, gvVars, gtError, runVars>>

\* catch: generateFallbackThumbnail: await execAsync(ffmpeg -f lavfi -i color=...)
ThumbnailFallbackStart ==
  /\ pc = "thumbnailFallback"
  /\ Invoke
  /\ tried' = tried \cup {"flat"}
  /\ attempts' = Append(attempts, "flat")
  /\ pc' = "thumbnailFallbackWait"
  /\ UNCHANGED <<topicWords, pathVars, libVars, procVars,
                 script, assets, segVars, fileVars, renderCalls,
                 musicFound, renderOutcome, narration, videoDuration, convertSucceeded,
                 ffmpegFailed, failedSteps, gvVars, gtVars, runVars>>

\* The fallback settled: `return thumbnailPath` follows with no check of the
\* file; a rejection leaves the catch block and generateThumbnail rejects
ThumbnailFallbackEnd(o) ==
  /\ pc = "thumbnailFallbackWait"
  /\ Settle
  /\ ffmpegFailed' = (ffmpegFailed \/ o = "fail")
  /\ IF o # "fail"
     THEN /\ thumbnailFile' = o
          /\ gtStatus' = "returned"
          /\ pc' = "generateMetadata"
          /\ UNCHANGED <<failedSteps, gtError, runVars>>
     ELSE /\ failedSteps' = failedSteps \cup {"flat"}
          /\ UNCHANGED thumbnailFile
          /\ gtStatus' = "raised"
          /\ gtError' = "ThumbnailFallbackError"
          /\ PipelineFails("ThumbnailFallbackError")
  /\ UNCHANGED <<topicWords, pathVars, libVars, procVars,
                 script, assets, segVars, voiceFile, captionsFile,
                 videoFile, frameFile, renderCalls, musicFound, renderOutcome, narration,
                 videoDuration, convertSucceeded, tried, attempts, gvVars>>

(***************************************************************************)
(* main.ts steps 7-10                                                      *)
(***************************************************************************)

\* step 7: generateMetadata
GenerateMetadata ==
  /\ pc = "generateMetadata"
  /\ pc' = "uploadVideo"
  /\ UNCHANGED <<topicWords, pathVars, libVars, procVars,
                 script, assets, segVars, fileVars, toolVars, histVars,
                 gvVars, gtVars, runVars>>

\* How uploadVideo can go: initialize() throws; videos.insert fails; its
\* response carries no id; thumbnails.set or videos.update fails after the
\* insert; or every step succeeds
UploadOutcomes ==
  {"throw", "insertFailed", "noId", "thumbnailFailed", "updateFailed", "id"}

\* The value uploadVideo resolves with: videoId, or null from its catch
UploadReturns(o) == IF o = "id" THEN "id" ELSE "null"

\* step 8: uploadVideo resolves with an id or with null, or rejects
UploadVideo(o) ==
  /\ pc = "uploadVideo"
  /\ remoteVideo' = (o \in {"thumbnailFailed", "updateFailed", "id"})
  /\ CASE o = "throw" -> PipelineFails("UploadError")
       [] UploadReturns(o) = "id" -> pc' = "saveProject" /\ UNCHANGED runVars
       [] OTHER -> /\ result' = "uploadFailed" /\ pc' = "returned"
                   /\ UNCHANGED pipelineError
  /\ UNCHANGED <<topicWords, pathVars, libVars, script, assets, segVars, fileVars, toolVars,
                 histVars, gvVars, gtVars, process, timer, analyticsPc, db, queries>>

\* runQuery, execQuery, allQuery on `database`: rejected when this.db is
\* null, otherwise settled as sqlite settles it
runQuery(database, sqlite) ==
  IF ~database.handle THEN "Database not connected" ELSE sqlite

\* What sqlite can answer to a statement
SqliteOutcomes == {"ok", "SQLITE_ERROR"}

\* The record of one query: the method, whose Database, its state, the result
Query(method, owner, database, sqlite) ==
  [method |-> method, owner |-> owner, handle |-> database.handle,
   isConnected |-> database.isConnected, result |-> runQuery(database, sqlite)]

\* steps 9 and 10: saveProject, then the analytics timer is set
SaveProject(sqlite) ==
  /\ pc = "saveProject"
  /\ queries' = queries \cup {Query("saveProject", "pipeline", db, sqlite)}
  /\ IF runQuery(db, sqlite) = "ok"
     THEN /\ result' = "completed" /\ pc' = "returned" /\ UNCHANGED pipelineError
          /\ timer' = "pending"
     ELSE PipelineFails("DatabaseError") /\ UNCHANGED timer
  /\ UNCHANGED <<topicWords, pathVars, libVars, script, assets, segVars, fileVars, toolVars,
                 histVars, gvVars, gtVars, process, analyticsPc, db, remoteVideo>>

Next ==
  \/ \E o \in {"noTrends", "noTopic", "topic"}, q \in QueryWords : SelectTopic(o, q)
  \/ \E h \in HookChoices, c \in CtaChoices : GenerateScript(h, c)
  \/ VoiceTTSStart
  \/ \E o \in ToolOutcomes, p \in {"darwin", "linux", "other"} : VoiceTTSEnd(o, p)
  \/ VoiceConvertStart
  \/ \E o \in ToolOutcomes : VoiceConvertEnd(o)
  \/ VoiceFallbackStart
  \/ \E o \in ToolOutcomes : VoiceFallbackEnd(o)
  \/ GenerateVideoStart
  \/ SegmentConvertStart
  \/ \E o \in ToolOutcomes : SegmentConvertEnd(o)
  \/ SegmentFallbackStart
  \/ \E o \in ToolOutcomes : SegmentFallbackEnd(o)
  \/ \E w \in BOOLEAN : GenerateCaptions(w)
  \/ \E m \in BOOLEAN : RenderStart(m)
  \/ \E o \in ToolOutcomes : RenderEnd(o, script.estimatedDuration, MaxAudioSeconds)
  \/ VerifyVideo
  \/ ExtractFrameStart
  \/ \E o \in ToolOutcomes : ExtractFrameEnd(o)
  \/ ThumbnailConvertStart
  \/ \E o \in ToolOutcomes : ThumbnailConvertEnd(o)
  \/ ThumbnailDrawtextStart
  \/ \E o \in ToolOutcomes : ThumbnailDrawtextEnd(o)
  \/ \E d \in BOOLEAN : UnlinkFrame(d)
  \/ VerifyThumbnail
  \/ ThumbnailFallbackStart
  \/ \E o \in ToolOutcomes : ThumbnailFallbackEnd(o)
  \/ GenerateMetadata
  \/ \E o \in UploadOutcomes : UploadVideo(o)
  \/ \E s \in SqliteOutcomes : SaveProject(s)

\* One process started through main().  The voiceover main.ts hands to
\* generateVideo is the one generateVoice made for the script; its length is
\* taken to be script.estimatedDuration, the length createFallbackAudio writes.
Spec == Init /\ [][Next]_vars

(***************************************************************************)
(* generateVideo called on its own, for any script                         *)
(***************************************************************************)

\* Largest number of segments, and of words of a segment, of an arbitrary script
MaxSegments == 2
MaxWords == 2

WordCountSeqs == UNION {[1..n -> 1..MaxWords] : n \in 0..MaxSegments}

\* The six-segment script of the documented scenario
ExampleWordCounts == <<8, 30, 40, 45, 12, 10>>

RECURSIVE PushAll(_, _, _)
PushAll(st, wc, i) ==
  IF i > Len(wc) THEN st
  ELSE PushAll(PushSegment(st, "explanation", <<"segment", i>>, wc[i]), wc, i + 1)

\* The GeneratedScript whose i-th segment has wc[i] words
ScriptOf(wc) ==
  LET s == PushAll([segments |-> <<>>, currentTime |-> 0], wc, 1)
  IN [segments |-> s.segments,
      totalWords |-> SumWords(s.segments),
      estimatedDuration |-> s.currentTime]

\* options.script of a call: a script of generateScript, or any other
\* GeneratedScript, the segment list of which may be empty
VideoScripts ==
  {generateScript(q, h, c) : q \in QueryWords, h \in HookChoices, c \in CtaChoices}
  \cup {ScriptOf(wc) : wc \in WordCountSeqs \cup {ExampleWordCounts}}

\* generateVideo({ script, voiceoverPath, topic }) is about to be entered
InitVideo ==
  /\ pc = "generateVideo"
  /\ topicWords = 0
  /\ script \in VideoScripts
  /\ assets = <<>>
  /\ voiceFile = "ok"
  /\ captionsFile = NoCaptions
  /\ videoFile = "none"
  /\ frameFile = "none"
  /\ thumbnailFile = "none"
  /\ inflight = 0
  /\ timeout = NoTimeout
  /\ segPrimary = "none"
  /\ segFallbacks = 0
  /\ zeroByteImage = FALSE
  /\ renderCalls = 0
  /\ musicFound = FALSE
  /\ renderOutcome = "none"
  /\ narration = 0
  /\ videoDuration = 0
  /\ convertSucceeded = FALSE
  /\ ffmpegFailed = FALSE
  /\ tried = {}
  /\ attempts = <<>>
  /\ failedSteps = {}
  /\ now = 0
  /\ pathsWritten = [r \in Runs |-> {}]
  /\ gvStatus = "idle"
  /\ gvError = NoError
  /\ gtStatus = "idle"
  /\ gtError = NoError
  /\ result = "running"
  /\ pipelineError = NoError
  /\ LibIdle
  /\ ProcessStarted(ConnectedDatabase)

NextVideo ==
  \/ GenerateVideoStart
  \/ SegmentConvertStart
  \/ \E o \in ToolOutcomes : SegmentConvertEnd(o)
  \/ SegmentFallbackStart
  \/ \E o \in ToolOutcomes : SegmentFallbackEnd(o)
  \/ \E w \in BOOLEAN : GenerateCaptions(w)
  \/ \E m \in BOOLEAN : RenderStart(m)
  \/ \E o \in ToolOutcomes, v \in AudioSeconds, m \in AudioSeconds : RenderEnd(o, v, m)
  \/ VerifyVideo

SpecVideo == InitVideo /\ [][NextVideo]_vars

(***************************************************************************)
(* Runs of the pipeline sharing one output directory and one clock         *)
(***************************************************************************)

\* Largest value of the millisecond clock
MaxClock == 2

mainVars == <<pc, topicWords, script, assets, fileVars, toolVars, histVars,
              segVars, gvVars, gtVars, runVars, libVars, procVars>>

\* script.id of run r: crypto.randomUUID(), distinct for distinct runs
ScriptId(r) == r

\* path.join(outputDir, `${videoId}_video.mp4`) and the other paths, as
\* <<template, what fills it, the value filled in, segment index>>
VideoPath(id) == <<"video.mp4", "script.id", id, 0>>
CaptionsPath(id) == <<"captions.srt", "script.id", id, 0>>
SegmentPath(id, i) == <<"segment.png", "script.id", id, i>>
ThumbnailPath(id) == <<"thumbnail.png", "script.id", id, 0>>
\* path.join(outputDir, `frame_${Date.now()}.jpg`)
FramePath(ms) == <<"frame.jpg", "Date.now()", ms, 0>>

IsFramePath(p) == p[1] = "frame.jpg"

\* Where run r stands, read off the files it has written
RunStage(r) ==
  IF VideoPath(ScriptId(r)) \notin pathsWritten[r] THEN "generateVideo"
  ELSE IF \A p \in pathsWritten[r] : ~IsFramePath(p) THEN "extractVideoFrame"
  ELSE IF ThumbnailPath(ScriptId(r)) \notin pathsWritten[r] THEN "createThumbnail"
  ELSE "done"

\* generateVideo of run r: segment images, caption file, video
RunGenerateVideo(r, n) ==
  /\ RunStage(r) = "generateVideo"
  /\ pathsWritten' = [pathsWritten EXCEPT ![r] =
        @ \cup {SegmentPath(ScriptId(r), i) : i \in 0..(n - 1)}
          \cup {CaptionsPath(ScriptId(r)), VideoPath(ScriptId(r))}]
  /\ UNCHANGED <<now, mainVars>>

\* extractVideoFrame of run r: ffmpeg writes the frame at framePath
RunExtractFrame(r) ==
  /\ RunStage(r) = "extractVideoFrame"
  /\ pathsWritten' = [pathsWritten EXCEPT ![r] = @ \cup {FramePath(now)}]
  /\ UNCHANGED <<now, mainVars>>

\* createThumbnailWithOverlay of run r: reads the frame, writes the thumbnail
RunCreateThumbnail(r) ==
  /\ RunStage(r) = "createThumbnail"
  /\ pathsWritten' = [pathsWritten EXCEPT ![r] = @ \cup {ThumbnailPath(ScriptId(r))}]
  /\ UNCHANGED <<now, mainVars>>

\* A millisecond passes
Tick ==
  /\ now < MaxClock
  /\ now' = now + 1
  /\ UNCHANGED <<pathsWritten, mainVars>>

NextRuns ==
  \/ \E r \in Runs, n \in 1..MaxSegments : RunGenerateVideo(r, n)
  \/ \E r \in Runs : RunExtractFrame(r)
  \/ \E r \in Runs : RunCreateThumbnail(r)
  \/ Tick

SpecRuns == Init /\ [][NextRuns]_vars

(***************************************************************************)
(* Properties                                                              *)
(***************************************************************************)

Segments == script.segments
NumSegments == Len(script.segments)

\* C1: in every script generateScript produced, the first segment starts at 0,
\* every segment ends at its start plus its duration, every later segment
\* starts where the one before it ends, and the last segment ends at
\* estimatedDuration.
TimingContiguity ==
  script # NoScript =>
    /\ Segments[1].startTime = 0
    /\ \A i \in 1..NumSegments :
         Segments[i].endTime = Segments[i].startTime + Segments[i].duration
    /\ \A i \in 2..NumSegments : Segments[i].startTime = Segments[i - 1].endTime
    /\ Segments[NumSegments].endTime = script.estimatedDuration

\* A script was generated whose segments are not all equally long
TimingContiguityWitness ==
  /\ pc = "generateVoice"
  /\ NumSegments = 8
  /\ \E i, j \in 1..NumSegments : Segments[i].duration # Segments[j].duration
  /\ Segments[NumSegments].startTime > 0

\* Reading a written time back: the value of a digit character
DigitValue(ch) == CHOOSE d \in 0..9 : DigitChar[d + 1] = ch

RECURSIVE ParseNumber(_)
ParseNumber(ds) ==
  IF ds = <<>> THEN 0
  ELSE ParseNumber(SubSeq(ds, 1, Len(ds) - 1)) * 10 + DigitValue(ds[Len(ds)])

\* The whole seconds a text H..H:MM:SS,mmm stands for
ParseTime(t) ==
  LET n == Len(t) IN
  ParseNumber(SubSeq(t, 1, n - 10)) * 3600 + ParseNumber(SubSeq(t, n - 8, n - 7)) * 60
  + ParseNumber(SubSeq(t, n - 5, n - 4))

\* t is laid out as hours ':' two digits ':' two digits ',' three digits
WellFormedTime(t) ==
  LET n == Len(t) IN
  /\ n >= 12
  /\ t[n - 9] = ":" /\ t[n - 6] = ":" /\ t[n - 3] = ","
  /\ SubSeq(t, n - 2, n) = <<"0", "0", "0">>

\* C2: the caption file of a script with n segments holds exactly n cues, in
\* segment order, numbered 1..n, and cue i carries the text, the start time
\* and the end time of segment i.
CaptionSegmentParity ==
  captionsFile.written =>
    /\ Len(captionsFile.cues) = NumSegments
    /\ \A i \in 1..Len(captionsFile.cues) :
         LET cue == captionsFile.cues[i] IN
         /\ cue.index = i
         /\ cue.text = Segments[i].text
         /\ WellFormedTime(cue.start) /\ WellFormedTime(cue.end)
         /\ ParseTime(cue.start) = Segments[i].startTime
         /\ ParseTime(cue.end) = Segments[i].endTime

\* A caption file of 8 cues was written, the last one ending past one minute
CaptionSegmentParityWitness ==
  /\ captionsFile.written
  /\ Len(captionsFile.cues) = 8
  /\ NumSegments = 8
  /\ Segments[8].endTime > 60
  /\ captionsFile.cues[8].index = 8

\* prepareAssets has returned: one asset per segment, in segment order
AssetsComplete ==
  /\ Len(assets) = NumSegments
  /\ \A i \in 1..Len(assets) : assets[i] = i - 1

\* C3: the render command is invoked at most once in any run and exactly once
\* in a run where generateVideo returns; it is invoked only after every
\* segment image and the caption file were produced, and a failed render is
\* never followed by a second invocation.
RenderExactlyOnce ==
  /\ renderCalls <= 1
  /\ (gvStatus = "returned" => renderCalls = 1 /\ renderOutcome = "ok")
  /\ (renderCalls > 0 => AssetsComplete /\ captionsFile.written)
  /\ (renderOutcome = "fail" => renderCalls = 1 /\ pc = "failed")

\* generateVideo returned after its single render of all 8 segment images
RenderExactlyOnceWitness ==
  /\ gvStatus = "returned"
  /\ renderCalls = 1
  /\ Len(assets) = 8

\* C4: when the render invocation fails, generateVideo rejects with that
\* error and executePipeline rejects with it too; no output is substituted,
\* the render is not retried, no path is returned, and neither the
\* thumbnail, nor metadata generation, nor the upload is started.
RenderFailureTerminal ==
  renderOutcome = "fail" =>
    /\ gvStatus = "raised" /\ gvError = "RenderFailure"
    /\ result = "error" /\ pipelineError = "RenderFailure"
    /\ pc = "failed"
    /\ renderCalls = 1
    /\ videoFile = "none"
    /\ gtStatus = "idle" /\ tried = {} /\ thumbnailFile = "none"

\* A run whose render failed
RenderFailureTerminalWitness ==
  /\ renderOutcome = "fail"
  /\ pc = "failed"
  /\ inflight = 0

\* C5: when the render reports success and leaves a zero-byte video,
\* generateVideo never returns the path: after the size check it has raised.
EmptyVideoRejected ==
  renderOutcome = "empty" =>
    /\ gvStatus # "returned"
    /\ gtStatus = "idle"
    /\ (pc # "verifyVideo" =>
          /\ gvStatus = "raised" /\ gvError = "EmptyVideoError"
          /\ result = "error" /\ pc = "failed")

\* The render left a zero-byte video and generateVideo raised
EmptyVideoRejectedWitness ==
  /\ renderOutcome = "empty"
  /\ videoFile = "empty"
  /\ gvStatus = "raised"

\* C6: whenever generateVideo returned a path the video and the caption file
\* are non-empty, and whenever generateThumbnail returned a path the
\* thumbnail exists and is non-empty, also after the flat-colour fallback.
NonEmptyOutputs ==
  /\ (gvStatus = "returned" =>
        videoFile = "ok" /\ captionsFile.written /\ captionsFile.cues # <<>>)
  /\ (gtStatus = "returned" => thumbnailFile = "ok")

\* Every convert invocation so far rejected and no ffmpeg invocation did
RasterizerDown == ~convertSucceeded /\ ~ffmpegFailed

\* C7: while every convert invocation fails and every ffmpeg invocation
\* succeeds, prepareAssets returns one image per segment and generateVideo
\* never raises before that, and generateThumbnail never raises.
FallbackDeterminism ==
  RasterizerDown =>
    /\ (gvStatus = "raised" => AssetsComplete)
    /\ (pc \in {"generateCaptions", "renderWithFFmpeg", "renderWait", "verifyVideo"}
          => AssetsComplete)
    /\ (gvStatus = "returned" => AssetsComplete)
    /\ gtStatus # "raised"

\* convert failed for all 8 segments and for the thumbnail overlay, and both
\* prepareAssets and generateThumbnail returned
FallbackDeterminismWitness ==
  /\ RasterizerDown
  /\ Len(assets) = 8
  /\ "rasterizer" \in failedSteps
  /\ gtStatus = "returned"

\* C8 as stated: generateThumbnail raises only in runs in which every level
\* of the ladder was attempted and failed.
TerminalOnlyAfterWholeLadder ==
  gtStatus = "raised" =>
    /\ {"rasterizer", "drawtext", "flat"} \subseteq tried
    /\ {"rasterizer", "drawtext", "flat"} \subseteq failedSteps

\* generateThumbnail has settled
ThumbnailSettled == pc \in {"generateMetadata", "uploadVideo", "saveProject", "returned"}
                    /\ gtStatus # "idle"

\* C8 amended: generateThumbnail ends by returning the path or by raising;
\* it raises only when the flat-colour fallback was attempted and failed,
\* after an earlier step failed: the frame extraction, or both overlay
\* levels, or the size check of the composed thumbnail.
TerminalOnlyAfterFlatFallback ==
  /\ (gtStatus = "raised" =>
        /\ "flat" \in tried /\ "flat" \in failedSteps
        /\ \/ "extract" \in failedSteps
           \/ {"rasterizer", "drawtext"} \subseteq failedSteps
           \/ "verify" \in failedSteps
        /\ gtError = "ThumbnailFallbackError"
        /\ result = "error" /\ pipelineError = gtError /\ pc = "failed")
  /\ (ThumbnailSettled => gtStatus = "returned")

\* generateThumbnail raised although the overlay levels were never attempted
TerminalOnlyAfterFlatFallbackWitness ==
  /\ gtStatus = "raised"
  /\ "extract" \in failedSteps
  /\ tried = {"flat"}

\* C9: a run that reached script generation never proceeds to metadata
\* generation or upload with the video, the caption file or the thumbnail
\* missing or empty, and it ends either with all three produced or with an
\* error raised to the caller.
CompleteTripleOrError ==
  LET triple == /\ videoFile = "ok"
                /\ captionsFile.written /\ captionsFile.cues # <<>>
                /\ thumbnailFile = "ok"
  IN /\ (pc \in {"generateMetadata", "uploadVideo", "saveProject"} => triple)
     /\ (pc = "returned" /\ script # NoScript => triple)
     /\ (pc = "failed" => result = "error" /\ pipelineError # NoError)

\* The positions at which an external-tool invocation is awaited
WaitStates == {"ttsWait", "voiceConvertWait", "voiceFallbackWait", "segmentConvertWait",
               "segmentFallbackWait", "renderWait", "extractWait", "thumbnailConvertWait",
               "thumbnailDrawtextWait", "thumbnailFallbackWait"}

\* C10: the stages of a run are strictly sequential: the render starts only
\* after asset provisioning and caption generation finished, thumbnail
\* generation starts only after the render succeeded and generateVideo
\* verified its output, and at most one external-tool invocation is in
\* flight at any moment.
StrictSequence ==
  /\ inflight = (IF pc \in WaitStates THEN 1 ELSE 0)
  /\ (renderCalls > 0 => AssetsComplete /\ captionsFile.written /\ gvStatus # "idle")
  /\ (pc = "renderWait" => gtStatus = "idle")
  /\ (gtStatus # "idle" =>
        gvStatus = "returned" /\ renderOutcome = "ok" /\ videoFile = "ok")
  /\ (gvStatus # "idle" => voiceFile # "none")

\* The first thumbnail tool is in flight, alone, after a verified render
StrictSequenceWitness ==
  /\ pc = "extractWait"
  /\ inflight = 1
  /\ gvStatus = "returned"
  /\ Len(assets) = 8

\* Per-segment images on disk: every path prepareAssets pushed names a file
\* createSegmentImage wrote, and generateVideo unlinks none of them.
SegmentImagesOnDisk == Len(assets)

\* generateVideo raised, or it returned and generateThumbnail returned or raised
GenerationFinished ==
  \/ gvStatus = "raised"
  \/ gvStatus = "returned" /\ gtStatus \in {"returned", "raised"}

\* fs.unlink(framePath) was reached: it follows createThumbnailWithOverlay,
\* which throws exactly when its text-draw overlay failed
FrameUnlinkAttempted == "drawtext" \notin failedSteps

\* C11: when generateVideo and generateThumbnail have finished, by returning
\* or by raising, no per-segment image of the run is left on disk, and no
\* extracted frame of the run is left without a deletion having been attempted.
TempAssetsCleaned ==
  GenerationFinished =>
    /\ SegmentImagesOnDisk = 0
    /\ frameFile = "none" \/ FrameUnlinkAttempted

\* C12: a script with zero segments makes generateVideo fail at once with
\* the empty-timeline error: no caption file is written and no external tool
\* is invoked for that run.
EmptyTimelineRejected ==
  (NumSegments = 0 /\ gvStatus # "idle") =>
    /\ gvStatus # "returned"
    /\ ~captionsFile.written
    /\ renderCalls = 0
    /\ inflight = 0

\* C13: without background music the rendered output lasts the shorter of
\* the timeline's total duration and the narration audio's duration (59 s for
\* a 59 s timeline and a 70 s narration).
ShortestOfTimelineAndNarration ==
  (renderOutcome = "ok" /\ ~musicFound) =>
    videoDuration = Min(script.estimatedDuration, narration)

RECURSIVE SumDurations(_)
SumDurations(segs) ==
  IF segs = <<>> THEN 0 ELSE Head(segs).duration + SumDurations(Tail(segs))

WordCounts == [i \in 1..NumSegments |-> Segments[i].words]
Durations == [i \in 1..NumSegments |-> Segments[i].duration]
StartTimes == [i \in 1..NumSegments |-> Segments[i].startTime]

\* C14: every segment of w words lasts ceil(2w / 5) seconds, which is the
\* least d with 5d >= 2w; estimatedDuration is the sum of the segment
\* durations; word counts 8, 30, 40, 45, 12, 10 give durations 4, 12, 16,
\* 18, 5, 4, start offsets 0, 4, 16, 32, 50, 55 and the total 59.
SegmentDurationFormula ==
  /\ \A i \in 1..NumSegments :
       /\ 5 * Segments[i].duration >= 2 * Segments[i].words
       /\ 5 * (Segments[i].duration - 1) < 2 * Segments[i].words
  /\ script.estimatedDuration = SumDurations(Segments)
  /\ WordCounts = ExampleWordCounts =>
       /\ Durations = <<4, 12, 16, 18, 5, 4>>
       /\ StartTimes = <<0, 4, 16, 32, 50, 55>>
       /\ script.estimatedDuration = 59

SegmentDurationFormulaWitness ==
  /\ WordCounts = ExampleWordCounts
  /\ script.estimatedDuration = 59
  /\ gvStatus = "returned"

\* C16: every file a run writes is at a path derived from that run's
\* script.id, so two runs with distinct identifiers never write the same
\* file: video, caption file, thumbnail, per-segment images, extracted frame.
RunsNeverShareAFile ==
  \A r, s \in Runs :
    r # s => pathsWritten[r] \cap pathsWritten[s] = {}

\* A tool invocation made inside generateVideo or generateThumbnail is in flight
GenerationToolInFlight ==
  inflight > 0 /\ (gvStatus = "running" \/ gtStatus = "running")

\* C17: every external-tool invocation made by generateVideo and
\* generateThumbnail carries a timeout, so that a tool that never finishes
\* cannot keep the run from terminating.
EveryInvocationHasTimeout ==
  GenerationToolInFlight => timeout # NoTimeout

\* The strategies of generateThumbnail in their fixed order
Strategies == <<"rasterizer", "drawtext", "flat">>

\* attempts names strategies in the order of Strategies, none of them twice
InLadderOrder ==
  \E picked \in SUBSET (1..Len(Strategies)) :
    /\ Len(attempts) = Cardinality(picked)
    /\ \A i \in 1..Len(attempts) :
         /\ \E k \in picked : attempts[i] = Strategies[k]
         /\ \A j \in 1..Len(attempts) :
              i < j => \E k, l \in picked :
                         k < l /\ attempts[i] = Strategies[k] /\ attempts[j] = Strategies[l]

Attempted(strategy) == \E i \in 1..Len(attempts) : attempts[i] = strategy

\* C18 as stated: the strategies are attempted in the order rasterizer overlay,
\* text-draw overlay, flat-colour background, each at most once per call and
\* only if the strategy before it was attempted and failed.
LadderOnlyAfterPreviousFailed ==
  /\ InLadderOrder
  /\ Attempted("drawtext") => (Attempted("rasterizer") /\ "rasterizer" \in failedSteps)
  /\ Attempted("flat") => (Attempted("drawtext") /\ "drawtext" \in failedSteps)

\* C18: the strategies are attempted in the order rasterizer overlay,
\* text-draw overlay, flat-colour background, each at most once per call; the
\* text-draw overlay only if the rasterizer overlay was attempted and failed;
\* the flat-colour background only after an earlier step of the call failed:
\* the frame extraction (no overlay attempted), the text-draw overlay, or the
\* size check of the composed thumbnail.
LadderOrder ==
  /\ InLadderOrder
  /\ Attempted("drawtext") => (Attempted("rasterizer") /\ "rasterizer" \in failedSteps)
  /\ Attempted("flat") =>
       \/ "extract" \in failedSteps /\ attempts = <<"flat">>
       \/ "drawtext" \in failedSteps /\ Attempted("drawtext")
       \/ "verify" \in failedSteps /\ Attempted("rasterizer")

LadderOrderWitness ==
  /\ attempts = <<"rasterizer", "drawtext", "flat">>
  /\ failedSteps = {"rasterizer", "drawtext"}

\* C19: for each segment createSegmentImage invokes the flat-colour fallback
\* if and only if the convert invocation for that segment raised an error,
\* after that invocation and at most once; when convert succeeds the fallback
\* is never invoked.
FallbackIffPrimaryFailed ==
  /\ segFallbacks <= 1
  /\ segFallbacks = 1 => segPrimary = "fail"
  /\ segPrimary \in {"none", "pending", "ok", "empty"} => segFallbacks = 0
  /\ (segPrimary = "fail" /\ pc # "segmentFallback") => segFallbacks = 1

FallbackIffPrimaryFailedWitness ==
  /\ segPrimary = "fail"
  /\ segFallbacks = 1
  /\ pc = "createSegmentImage"
  /\ Len(assets) >= 1

\* C20: when the convert invocation for a segment completes without error
\* but leaves an image of size 0, the flat-colour fallback is invoked for that
\* segment, so that no zero-size image is passed to the render command.
ZeroSizeImageReplaced ==
  /\ (segPrimary = "empty" /\ pc # "segmentFallback") => segFallbacks >= 1
  /\ renderCalls > 0 => ~zeroByteImage

\* The command of the render invocation of this call
Command == renderCommand(assets, musicFound)

SelectStages(seq) == SelectSeq(seq, LAMBDA piece : piece.kind = "stage")
CommandStages == SelectStages(Command.filterComplex)
StagesOf(filter) == SelectSeq(CommandStages, LAMBDA st : st.filter = filter)
ImageInputsOf(cmd) == SelectSeq(cmd.inputs, LAMBDA in : in.loop)
AudioInputsOf(cmd) == SelectSeq(cmd.inputs, LAMBDA in : ~in.loop)

\* Stages that consume the label
Consumers(label) ==
  {k \in 1..Len(CommandStages) :
     \E j \in 1..Len(CommandStages[k].ins) : CommandStages[k].ins[j] = label}

\* C21: for a script of n segments the render command has exactly n image
\* inputs, the i-th of them the image of the i-th segment held for the
\* 2-second slot; the concat stage joins exactly these n streams in segment
\* order; exactly one caption-burn stage is applied to the concatenated stream
\* and is the last video stage; the output maps the captioned video stream and
\* the single mixed audio stream.
RenderCommandStructure ==
  renderCalls > 0 =>
    /\ Len(ImageInputsOf(Command)) = NumSegments
    /\ \A i \in 1..NumSegments :
         /\ Command.inputs[i] = [loop |-> TRUE, t |-> 2, path |-> <<"segment", i - 1>>]
         /\ \E k \in 1..Len(CommandStages) :
              /\ CommandStages[k].ins = <<InputPad(i - 1, "v")>>
              /\ CommandStages[k].out = <<StagesOf("concat")[1].ins[i]>>
    /\ Len(StagesOf("concat")) = 1
    /\ Len(StagesOf("concat")[1].ins) = NumSegments
    /\ StagesOf("concat")[1].args = <<NumSegments, 1, 0>>
    /\ Len(StagesOf("subtitles")) = 1
    /\ StagesOf("subtitles")[1].ins = StagesOf("concat")[1].out
    /\ Consumers(StagesOf("subtitles")[1].out[1]) = {}
    /\ Command.maps[1] = StagesOf("subtitles")[1].out[1]
    /\ Len(SelectSeq(CommandStages, LAMBDA st : st.out = <<Command.maps[2]>>)) = 1
    /\ Len(Command.maps) = 2

RenderCommandStructureWitness ==
  /\ renderCalls > 0
  /\ NumSegments = 6
  /\ Len(Command.inputs) = 8
  /\ pc = "renderWait"

RECURSIVE SplitStages(_, _)
\* The pieces between consecutive ';' of the filter graph, as ffmpeg reads
\* them: `current` collects the pieces since the last ';'
SplitStages(seq, current) ==
  IF seq = <<>> THEN <<current>>
  ELSE IF Head(seq).kind = "sep" THEN <<current>> \o SplitStages(Tail(seq), <<>>)
  ELSE SplitStages(Tail(seq), Append(current, Head(seq)))

\* Stages that produce the label
Producers(label) ==
  {k \in 1..Len(CommandStages) : CommandStages[k].out = <<label>>}

\* Number of times the label is consumed, by stages and by -map
TimesConsumed(label) ==
  LET uses(k) == Cardinality({j \in 1..Len(CommandStages[k].ins) :
                                CommandStages[k].ins[j] = label})
      RECURSIVE total(_)
      total(k) == IF k = 0 THEN 0 ELSE uses(k) + total(k - 1)
  IN total(Len(CommandStages))
     + Cardinality({j \in 1..Len(Command.maps) : Command.maps[j] = label})

ConsumedLabels ==
  UNION {{CommandStages[k].ins[j] : j \in 1..Len(CommandStages[k].ins)} :
           k \in 1..Len(CommandStages)}

\* C22: for every n >= 1 and both audio branches the filter graph is well
\* formed: every stage between two ';' is non-empty, every consumed label is
\* an input index below the number of inputs or is produced by exactly one
\* stage, and every produced label is consumed exactly once.
FilterGraphWellFormed ==
  (renderCalls > 0 /\ NumSegments >= 1) =>
    /\ \A k \in 1..Len(SplitStages(Command.filterComplex, <<>>)) :
         Len(SplitStages(Command.filterComplex, <<>>)[k]) = 1
    /\ \A label \in ConsumedLabels :
         IF label[1] = "input"
         THEN label[2] < Len(Command.inputs)
         ELSE Cardinality(Producers(label)) = 1
    /\ \A k \in 1..Len(CommandStages) : TimesConsumed(CommandStages[k].out[1]) = 1

\* The labels of the filter graph are wired as C22 says, in both branches
FilterGraphLabelsWired ==
  (renderCalls > 0 /\ NumSegments >= 1) =>
    /\ \A label \in ConsumedLabels :
         IF label[1] = "input"
         THEN label[2] < Len(Command.inputs)
         ELSE Cardinality(Producers(label)) = 1
    /\ \A k \in 1..Len(CommandStages) : TimesConsumed(CommandStages[k].out[1]) = 1
    /\ (~musicFound =>
          \A k \in 1..Len(SplitStages(Command.filterComplex, <<>>)) :
            Len(SplitStages(Command.filterComplex, <<>>)[k]) = 1)

\* C23: the audio plan has exactly two shapes.  With the music file present
\* the command takes narration and music as two audio inputs, scales narration
\* to 0.3 and music to 0.1 and mixes them with the result lasting as long as
\* the longer one; without it the command takes narration only, at level 1.0.
\* The absence of the music file never makes the run fail.
AudioPlanShapes ==
  renderCalls > 0 =>
    LET n == NumSegments
        audio == SelectSeq(CommandStages,
                           LAMBDA st : st.filter \in {"volume", "amix:duration=longest"})
    IN /\ musicFound =>
            /\ AudioInputsOf(Command) = <<AudioInput("voiceover"), AudioInput("music")>>
            /\ Len(audio) = 3
            /\ audio[1].ins = <<InputPad(n, "a")>> /\ audio[1].filter = "volume"
            /\ audio[1].args = <<3>>
            /\ audio[2].ins = <<InputPad(n + 1, "a")>> /\ audio[2].filter = "volume"
            /\ audio[2].args = <<1>>
            /\ audio[3].ins = audio[1].out \o audio[2].out
            /\ audio[3].filter = "amix:duration=longest" /\ audio[3].args = <<2>>
            /\ audio[3].out = <<Command.maps[2]>>
       /\ ~musicFound =>
            /\ AudioInputsOf(Command) = <<AudioInput("voiceover")>>
            /\ Len(audio) = 1
            /\ audio[1].ins = <<InputPad(n, "a")>> /\ audio[1].filter = "volume"
            /\ audio[1].args = <<10>>
            /\ audio[1].out = <<Command.maps[2]>>
            /\ (renderOutcome = "ok" => gvError # "RenderFailure")
            /\ (pc = "renderWait" => gvStatus = "running" /\ inflight = 1)

AudioPlanShapesWitness ==
  /\ renderCalls > 0
  /\ ~musicFound
  /\ gvStatus = "returned"
  /\ NumSegments = 2

\* C24: a failure to delete the extracted frame never changes the outcome of
\* generateThumbnail: the step that leaves the frame on disk raises nothing,
\* starts no fallback and goes on to verify the composed thumbnail, which is
\* left as it was.
UnlinkFailureHarmless ==
  [][(pc = "unlinkFrame" /\ frameFile' # "none") =>
       /\ pc' = "verifyThumbnail"
       /\ UNCHANGED <<thumbnailFile, tried, attempts, failedSteps, gtStatus, gtError,
                      result, pipelineError>>]_vars

UnlinkFailureHarmlessWitness ==
  /\ frameFile # "none"
  /\ gtStatus = "returned"
  /\ thumbnailFile = "ok"
  /\ "rasterizer" \in tried
  /\ "flat" \notin tried
  /\ failedSteps = {}

\* saveProject was issued in this run
ProjectRecordSaved == \E q \in queries : q.method = "saveProject" /\ q.result = "ok"

\* C27: uploadVideo returns null only if no video was created on the remote
\* channel; every video it inserted is reported by id, so a project record is
\* saved for every uploaded video.
NullOnlyIfNothingUploaded ==
  /\ result = "uploadFailed" => ~remoteVideo
  /\ (remoteVideo /\ pc = "returned") => ProjectRecordSaved

(***************************************************************************)
(* main(): the process from its start to its end.  initialize() connects   *)
(* the Database, executePipeline() is the pipeline above, the analytics     *)
(* callback is run by the event loop while the process lives.               *)
(***************************************************************************)

pipelineVars == <<topicWords, script, assets, fileVars, toolVars, histVars, segVars, pathVars,
                  gvVars, gtVars>>

\* The fields of a pipeline whose executePipeline has not started
PipelineIdle ==
  /\ topicWords = 0
  /\ script = NoScript
  /\ assets = <<>>
  /\ voiceFile = "none"
  /\ captionsFile = NoCaptions
  /\ videoFile = "none"
  /\ frameFile = "none"
  /\ thumbnailFile = "none"
  /\ inflight = 0
  /\ timeout = NoTimeout
  /\ segPrimary = "none"
  /\ segFallbacks = 0
  /\ zeroByteImage = FALSE
  /\ renderCalls = 0
  /\ musicFound = FALSE
  /\ renderOutcome = "none"
  /\ narration = 0
  /\ videoDuration = 0
  /\ convertSucceeded = FALSE
  /\ ffmpegFailed = FALSE
  /\ tried = {}
  /\ attempts = <<>>
  /\ failedSteps = {}
  /\ now = 0
  /\ pathsWritten = [r \in Runs |-> {}]
  /\ gvStatus = "idle"
  /\ gvError = NoError
  /\ gtStatus = "idle"
  /\ gtError = NoError
  /\ result = "running"
  /\ pipelineError = NoError

\* main() has constructed the pipeline: `this.db = new Database()`
InitMain ==
  /\ pc = "main"
  /\ PipelineIdle
  /\ LibIdle
  /\ ProcessStarted(FreshDatabase)

\* main: catch (error) { logger.error(...); process.exit(1); }
MainCatch ==
  /\ process' = "exit1"
  /\ pc' = "exited"

\* await pipeline.initialize(): this.db.connect() up to `new sqlite3.Database`
MainInitialize ==
  /\ pc = "main"
  /\ process = "running"
  /\ IF db.isConnected
     THEN pc' = "fetchTrends" /\ UNCHANGED db
     ELSE /\ db' = [db EXCEPT !.handle = TRUE, !.connect = "opening"]
          /\ pc' = "connectOpening"
  /\ UNCHANGED <<pipelineVars, runVars, libVars, process, timer, analyticsPc, queries,
                 remoteVideo>>

\* connect: the callback of new sqlite3.Database(path, (err) => ...)
ConnectOpened(opened) ==
  /\ pc = "connectOpening"
  /\ process = "running"
  /\ IF opened
     THEN /\ db' = [db EXCEPT !.isConnected = TRUE, !.connect = "initializing"]
          /\ pc' = "initializeTables"
          /\ UNCHANGED process
     ELSE /\ db' = [db EXCEPT !.connect = "rejected"]
          /\ MainCatch
  /\ UNCHANGED <<pipelineVars, runVars, libVars, timer, analyticsPc, queries, remoteVideo>>

\* connect: this.initializeTables().then(resolve).catch(reject)
InitializeTablesEnd(sqlite) ==
  /\ pc = "initializeTables"
  /\ process = "running"
  /\ IF runQuery(db, sqlite) = "ok"
     THEN /\ db' = [db EXCEPT !.initialised = TRUE, !.connect = "resolved"]
          /\ pc' = "fetchTrends"
          /\ UNCHANGED process
     ELSE /\ db' = [db EXCEPT !.connect = "rejected"]
          /\ MainCatch
  /\ UNCHANGED <<pipelineVars, runVars, libVars, timer, analyticsPc, queries, remoteVideo>>

\* executePipeline rejected: main's catch
MainCatchPipeline ==
  /\ pc = "failed"
  /\ process = "running"
  /\ MainCatch
  /\ UNCHANGED <<pipelineVars, runVars, libVars, timer, analyticsPc, db, queries, remoteVideo>>

\* main: finally { await pipeline.shutdown(); ... }: disconnect() up to close
MainFinally ==
  /\ pc = "returned"
  /\ process = "running"
  /\ IF ~db.handle \/ ~db.isConnected
     THEN process' = "exit0" /\ pc' = "exited"
     ELSE pc' = "disconnecting" /\ UNCHANGED process
  /\ UNCHANGED <<pipelineVars, runVars, libVars, timer, analyticsPc, db, queries, remoteVideo>>

\* disconnect: the callback of close, then process.exit(0).  When close
\* fails main() rejects with nobody handling it: node ends the process
\* (unhandled rejections throw) or only warns and lets it run on
DisconnectEnd(closed, strict) ==
  /\ pc = "disconnecting"
  /\ process = "running"
  /\ IF closed
     THEN /\ db' = [db EXCEPT !.handle = FALSE, !.isConnected = FALSE]
          /\ process' = "exit0"
          /\ pc' = "exited"
     ELSE /\ UNCHANGED db
          /\ process' = IF strict THEN "crashed" ELSE "running"
          /\ pc' = IF strict THEN "exited" ELSE "mainRejected"
  /\ UNCHANGED <<pipelineVars, runVars, libVars, timer, analyticsPc, queries, remoteVideo>>

\* setTimeout(async () => { await this.collectAnalytics(videoId) }, 24h):
\* the delay has passed and the process is still there.  The event loop runs
\* a timer only when main() is waiting (for close) or is over
TimerFires ==
  /\ timer = "pending"
  /\ process = "running"
  /\ pc \in {"disconnecting", "mainRejected"}
  /\ timer' = "fired"
  /\ analyticsPc' = "fetchAnalytics"
  /\ UNCHANGED <<pc, pipelineVars, runVars, libVars, process, db, queries, remoteVideo>>

\* collectAnalytics: fetchAnalytics settled, then this.db.saveAnalytics(videoId,
\* analytics), which reads analytics.views before any query when it is null
FetchAnalyticsEnd(o, sqlite) ==
  /\ analyticsPc = "fetchAnalytics"
  /\ process = "running"
  /\ IF o = "analytics"
     THEN /\ queries' = queries \cup {Query("saveAnalytics", "pipeline", db, sqlite)}
          /\ analyticsPc' = IF runQuery(db, sqlite) = "ok" THEN "optimizeNextRun" ELSE "done"
     ELSE /\ analyticsPc' = "done"
          /\ UNCHANGED queries
  /\ UNCHANGED <<pc, pipelineVars, runVars, libVars, process, timer, db, remoteVideo>>

\* PipelineOptimizer: constructor() { this.db = new Database(); }
OptimizerDatabase == FreshDatabase

\* optimizeNextRun: saveOptimizationResult, then updateScoringWeights:
\* getScoringWeights and updateScoringWeight; the first rejection ends it
OptimizerQueries(database, sqlite) ==
  IF runQuery(database, sqlite) = "ok"
  THEN {Query(m, "optimizer", database, sqlite) :
          m \in {"saveOptimizationResult", "getScoringWeights", "updateScoringWeight"}}
  ELSE {Query("saveOptimizationResult", "optimizer", database, sqlite)}

\* collectAnalytics: await optimizeNextRun(analytics), a rejection is logged
OptimizeNextRun(sqlite) ==
  /\ analyticsPc = "optimizeNextRun"
  /\ process = "running"
  /\ queries' = queries \cup OptimizerQueries(OptimizerDatabase, sqlite)
  /\ analyticsPc' = "done"
  /\ UNCHANGED <<pc, pipelineVars, runVars, libVars, process, timer, db, remoteVideo>>

NextMain ==
  \/ MainInitialize
  \/ \E opened \in BOOLEAN : ConnectOpened(opened)
  \/ \E s \in SqliteOutcomes : InitializeTablesEnd(s)
  \/ Next
  \/ MainCatchPipeline
  \/ MainFinally
  \/ \E closed \in BOOLEAN, strict \in BOOLEAN : DisconnectEnd(closed, strict)
  \/ TimerFires
  \/ \E o \in {"analytics", "null", "throw"}, s \in SqliteOutcomes : FetchAnalyticsEnd(o, s)
  \/ \E s \in SqliteOutcomes : OptimizeNextRun(s)

\* One process started through main()
SpecMain == InitMain /\ [][NextMain]_vars

\* collectAnalytics was entered
AnalyticsCollected == analyticsPc # "idle"

\* C26: after a run whose upload succeeded, started through main(), the
\* scheduled callback runs and calls collectAnalytics before the process ends.
FeedbackLoopRuns ==
  (process # "running" /\ result = "completed") => AnalyticsCollected

\* No connect() call is in progress
ConnectSettled == db.connect \in {"none", "resolved", "rejected"}

\* C28: isConnected is true only if the database is open and its tables and
\* default weights are initialised; after a connect() that rejected,
\* isConnected is false, so that a later connect() tries again.
ConnectedMeansInitialised ==
  ConnectSettled =>
    /\ db.isConnected => (db.handle /\ db.initialised)
    /\ db.connect = "rejected" => ~db.isConnected

\* the same, of the flag and the handle only
ConnectedMeansOpen == db.isConnected => db.handle

\* C29: every query the pipeline issues (saveProject, saveAnalytics,
\* saveOptimizationResult, getScoringWeights, updateScoringWeight) is issued
\* on a Database that has been connected and not disconnected; none is
\* rejected with 'Database not connected'.
QueriesOnConnectedDatabase ==
  \A q \in queries :
    /\ q.handle
    /\ q.isConnected
    /\ q.result # "Database not connected"

\* the same, of the queries of the pipeline's own Database
PipelineQueriesOnConnectedDatabase ==
  \A q \in queries :
    q.owner = "pipeline" => (q.handle /\ q.isConnected /\ q.result # "Database not connected")

(***************************************************************************)
(* formatTime called on whole numbers of seconds                           *)
(***************************************************************************)

\* Largest number of seconds formatTime is called with: 23:59:59
MaxSeconds == 86399

\* formatTime(seconds) is about to be called
InitFormat ==
  /\ pc = "formatTime"
  /\ PipelineIdle
  /\ timeSeconds \in 0..MaxSeconds
  /\ timeText = <<>>
  /\ retry = NoRetry
  /\ ProcessStarted(FreshDatabase)

\* return `${hours...}:${minutes...}:${secs...},${ms...}`
FormatTime ==
  /\ pc = "formatTime"
  /\ timeText' = formatTime(timeSeconds)
  /\ pc' = "formatted"
  /\ UNCHANGED <<pipelineVars, runVars, timeSeconds, retry, procVars>>

NextFormat == FormatTime

SpecFormat == InitFormat /\ [][NextFormat]_vars

IsDigit(ch) == \E d \in 1..10 : DigitChar[d] = ch

RECURSIVE LexLess(_, _)
\* a sorts before b, character by character ("," < "0" < ... < "9" < ":")
LexLess(a, b) ==
  LET rank(ch) == IF ch = "," THEN 0 ELSE IF ch = ":" THEN 11 ELSE DigitValue(ch) + 1 IN
  IF b = <<>> THEN FALSE
  ELSE IF a = <<>> THEN TRUE
  ELSE IF Head(a) = Head(b) THEN LexLess(Tail(a), Tail(b))
  ELSE rank(Head(a)) < rank(Head(b))

\* C25: for every whole number of seconds s in 0..86399, formatTime(s) is the
\* text HH:MM:SS,000 with two-digit fields where MM < 60, SS < 60 and
\* HH*3600 + MM*60 + SS = s; hence it is injective and order-preserving.
FormatTimeDecodes ==
  pc = "formatted" =>
    LET t == timeText
        HH == ParseNumber(SubSeq(t, 1, 2))
        MM == ParseNumber(SubSeq(t, 4, 5))
        SS == ParseNumber(SubSeq(t, 7, 8))
    IN /\ Len(t) = 12
       /\ \A i \in {1, 2, 4, 5, 7, 8} : IsDigit(t[i])
       /\ t[3] = ":" /\ t[6] = ":" /\ t[9] = ","
       /\ SubSeq(t, 10, 12) = <<"0", "0", "0">>
       /\ MM < 60
       /\ SS < 60
       /\ HH * 3600 + MM * 60 + SS = timeSeconds
       /\ timeSeconds < MaxSeconds => LexLess(t, formatTime(timeSeconds + 1))

FormatTimeDecodesWitness ==
  /\ pc = "formatted"
  /\ timeSeconds = 86399
  /\ timeText = <<"2", "3", ":", "5", "9", ":", "5", "9", ",", "0", "0", "0">>

(***************************************************************************)
(* retryWithBackoff(operation, maxRetries, baseDelay)                      *)
(***************************************************************************)

\* Largest maxRetries of a call
MaxRetries == 3

\* baseDelay of a call, in ms: the default and another one
BaseDelays == {1000, 250}

\* Values the operation can resolve with
OperationValues == {1, 2}

\* The k-th attempt rejects with an Error or with a value that is no Error
Rejections(k) == {[isError |-> e, id |-> k] : e \in BOOLEAN}

\* new Error('Operation failed after retries')
OperationFailedError == [isError |-> TRUE, id |-> 0]

\* How one `await operation()` can settle
Resolved(v) == [resolved |-> TRUE, value |-> v, error |-> NoRejection]
Rejected(e) == [resolved |-> FALSE, value |-> 0, error |-> e]

\* Math.pow(2, n)
RECURSIVE Pow2(_)
Pow2(n) == IF n = 0 THEN 1 ELSE 2 * Pow2(n - 1)

\* retryWithBackoff was called: lastError = null, attempt = 1
InitRetry ==
  /\ pc = "retryWithBackoff"
  /\ PipelineIdle
  /\ timeSeconds = 0
  /\ timeText = <<>>
  /\ \E m \in 0..MaxRetries, b \in BaseDelays :
       retry = [NoRetry EXCEPT !.maxRetries = m, !.baseDelay = b, !.attempt = 1,
                               !.status = "running"]
  /\ ProcessStarted(FreshDatabase)

\* throw lastError instanceof Error ? lastError : new Error(...)
Thrown(lastError) == IF lastError.isError THEN lastError ELSE OperationFailedError

\* RetryAttempt waiting after the last attempt as well
RetryAttemptAlwaysWaits(o) ==
  /\ pc = "retryWithBackoff"
  /\ retry.status = "running"
  /\ retry.attempt <= retry.maxRetries
  /\ LET tried1 == [retry EXCEPT !.outcomes = Append(@, o)] IN
     IF o.resolved
     THEN retry' = [tried1 EXCEPT !.status = "returned", !.value = o.value]
     ELSE retry' = [tried1 EXCEPT !.lastError = o.error, !.status = "waiting",
                                  !.waits = Append(@, retry.baseDelay
                                                      * Pow2(retry.attempt - 1))]
  /\ UNCHANGED <<pc, pipelineVars, runVars, timeSeconds, timeText, procVars>>

\* One turn of the loop: try { return await operation() } catch (error) {
\* lastError = error; if (attempt === maxRetries) break; delay = ...;
\* await new Promise(resolve => setTimeout(resolve, delay)) }
RetryAttempt(o) ==
  /\ pc = "retryWithBackoff"
  /\ retry.status = "running"
  /\ retry.attempt <= retry.maxRetries
  /\ LET tried1 == [retry EXCEPT !.outcomes = Append(@, o)] IN
     IF o.resolved
     THEN retry' = [tried1 EXCEPT !.status = "returned", !.value = o.value]
     ELSE IF retry.attempt = retry.maxRetries
     THEN retry' = [tried1 EXCEPT !.lastError = o.error, !.status = "raised",
                                  !.raised = Thrown(o.error)]
     ELSE retry' = [tried1 EXCEPT !.lastError = o.error, !.status = "waiting",
                                  !.waits = Append(@, retry.baseDelay
                                                      * Pow2(retry.attempt - 1))]
  /\ UNCHANGED <<pc, pipelineVars, runVars, timeSeconds, timeText, procVars>>

\* The delay has passed: attempt++
RetryWaitEnd ==
  /\ pc = "retryWithBackoff"
  /\ retry.status = "waiting"
  /\ retry' = [retry EXCEPT !.attempt = @ + 1, !.status = "running"]
  /\ UNCHANGED <<pc, pipelineVars, runVars, timeSeconds, timeText, procVars>>

\* The loop condition attempt <= maxRetries is false: the throw after the loop
RetryLoopExit ==
  /\ pc = "retryWithBackoff"
  /\ retry.status = "running"
  /\ retry.attempt > retry.maxRetries
  /\ retry' = [retry EXCEPT !.status = "raised", !.raised = Thrown(retry.lastError)]
  /\ UNCHANGED <<pc, pipelineVars, runVars, timeSeconds, timeText, procVars>>

NextRetry ==
  \/ \E v \in OperationValues : RetryAttempt(Resolved(v))
  \/ \E e \in Rejections(retry.attempt) : RetryAttempt(Rejected(e))
  \/ RetryWaitEnd
  \/ RetryLoopExit

SpecRetry == InitRetry /\ [][NextRetry]_vars

\* Invocations of the operation so far
Calls == Len(retry.outcomes)

\* The call has settled
RetrySettled == retry.status \in {"returned", "raised"}

\* What C30 says of the attempts, the result and the waits
RetryBounds ==
  /\ Calls <= retry.maxRetries
  /\ RetrySettled => Calls >= 1
  /\ \A k \in 1..Calls : retry.outcomes[k].resolved => k = Calls
  /\ retry.status = "returned" <=> (Calls >= 1 /\ retry.outcomes[Calls].resolved)
  /\ retry.status = "returned" => retry.value = retry.outcomes[Calls].value
  /\ retry.status = "raised" =>
       Calls = retry.maxRetries /\ \A k \in 1..Calls : ~retry.outcomes[k].resolved
  /\ Len(retry.waits) <= retry.maxRetries - 1
  /\ \A k \in 1..Len(retry.waits) :
       /\ ~retry.outcomes[k].resolved
       /\ retry.waits[k] = retry.baseDelay * Pow2(k - 1)
  /\ RetrySettled =>
       Len(retry.waits) = Calls - 1

\* C30 as stated: for maxRetries >= 1 the operation is invoked at least once
\* and at most maxRetries times, never after a success; the first success's
\* result is returned; when all attempts fail the error of the last attempt
\* is raised; the wait after the k-th failure is baseDelay * 2^(k-1) for
\* k < maxRetries and there is none after the last.
RetryRaisesLastError ==
  retry.maxRetries >= 1 =>
    /\ RetryBounds
    /\ retry.status = "raised" => retry.raised = retry.outcomes[Calls].error

\* C30 amended: as above, but the error raised is the last attempt's only
\* when that is an Error; otherwise a new Error('Operation failed after
\* retries') is raised in its place.
RetryRaisesLastErrorIfError ==
  retry.maxRetries >= 1 =>
    /\ RetryBounds
    /\ retry.status = "raised" =>
         retry.raised = IF retry.outcomes[Calls].error.isError
                        THEN retry.outcomes[Calls].error
                        ELSE OperationFailedError

RetryRaisesLastErrorIfErrorWitness ==
  /\ retry.maxRetries = 3
  /\ retry.status = "raised"
  /\ Calls = 3
  /\ retry.waits = <<1000, 2000>>
  /\ ~retry.outcomes[3].error.isError
  /\ retry.raised = OperationFailedError

====
